---- MODULE Spec2Model ----
(***************************************************************************)
(* Model of the genmath numeric kernel, instantiated at T = int8.          *)
(* One call of one library function per behaviour: Init draws the function *)
(* and its arguments, the Call actions apply the straight-line functions,  *)
(* and QuickIntegral runs its loop one iteration per step.                 *)
(***************************************************************************)
EXTENDS Integers, Sequences, FiniteSets, TLC

VARIABLES pc, fn, args, locals, ret

vars == <<pc, fn, args, locals, ret>>

\* ---------------------------------------------------------------- bounds
MaxIn == 3      \* small arguments are drawn from -MaxIn..MaxIn
MaxC == 2       \* constant formulas f(x) = c have c in -MaxC..MaxC

\* ------------------------------------------------------- the type T = int8
MAX_I8 == 127
MIN_I8 == -128

Int8 == MIN_I8..MAX_I8

TCard == MAX_I8 - MIN_I8 + 1

\* two's complement wrap-around of a mathematical integer into T
WrapT(x) == ((x - MIN_I8) % TCard) + MIN_I8

Add(a, b) == WrapT(a + b)
Sub(a, b) == WrapT(a - b)
Mul(a, b) == WrapT(a * b)
Neg(a) == WrapT(0 - a)

MathAbs(x) == IF x < 0 THEN 0 - x ELSE x

\* Go's integer division truncates toward zero; MIN / -1 wraps
Quo(a, b) ==
    LET q == MathAbs(a) \div MathAbs(b)
    IN  WrapT(IF (a < 0) = (b < 0) THEN q ELSE 0 - q)

Min(a, b) == IF a < b THEN a ELSE b

Max(a, b) == IF a > b THEN a ELSE b

\* ------------------------------------------------------------- uint64
\* A uint64 is kept as [w, n]: the value n when w is FALSE, 2^64 - n when
\* w is TRUE (n > 0).  Only values within 2^7 of either end ever occur.
\* 2^64 mod m by repeated squaring
Pow64Mod(m) ==
    LET p2  == 4 % m
        p4  == (p2 * p2) % m
        p8  == (p4 * p4) % m
        p16 == (p8 * p8) % m
        p32 == (p16 * p16) % m
    IN  (p32 * p32) % m

\* uint64(x) of an int8: sign extension
ToU64(x) == IF x >= 0 THEN [w |-> FALSE, n |-> x] ELSE [w |-> TRUE, n |-> 0 - x]

\* a % b on uint64, b # 0
U64Rem(a, b) ==
    CASE ~a.w /\ ~b.w -> [w |-> FALSE, n |-> a.n % b.n]
      [] ~a.w /\ b.w  -> a
      [] a.w /\ ~b.w  -> [w |-> FALSE,
                          n |-> (Pow64Mod(b.n) + b.n - (a.n % b.n)) % b.n]
      [] a.w /\ b.w   -> IF a.n <= b.n THEN [w |-> FALSE, n |-> b.n - a.n] ELSE a

\* T(u): keep the low 8 bits
FromU64(u) == IF u.w THEN WrapT(0 - u.n) ELSE WrapT(u.n)

\* ------------------------------------------------------------- IMod
\* variant: the sign follows val alone, as the native % does
IModSignOfVal(val, div) ==
    LET negV == val < 0
        negD == div < 0
        val1 == IF negV THEN Neg(val) ELSE val
        div1 == IF negD THEN Neg(div) ELSE div
        mod  == FromU64(U64Rem(ToU64(val1), ToU64(div1)))
    IN  IF negV THEN Neg(mod) ELSE mod

\* variant: div is not negated before the conversion
IModKeepDivSign(val, div) ==
    LET negV == val < 0
        negD == div < 0
        val1 == IF negV THEN Neg(val) ELSE val
        mod  == FromU64(U64Rem(ToU64(val1), ToU64(div)))
    IN  IF (negV /\ ~negD) \/ (~negV /\ negD) THEN Neg(mod) ELSE mod

IMod(val, div) ==
    LET negV == val < 0
        negD == div < 0
        val1 == IF negV THEN Neg(val) ELSE val
        div1 == IF negD THEN Neg(div) ELSE div
        uVal == ToU64(val1)
        uDiv == ToU64(div1)
        uMod == U64Rem(uVal, uDiv)
        mod  == FromU64(uMod)
    IN  IF (negV /\ ~negD) \/ (~negV /\ negD) THEN Neg(mod) ELSE mod

\* ------------------------------------------------------------- IWholeRem
\* variant: the remainder of the division, value - whole*mod
IWholeRemOfDivision(value, mod) ==
    LET whole == Quo(value, mod)
        rem   == Sub(value, Mul(whole, mod))
    IN  <<whole, rem>>

IWholeRem(value, mod) ==
    LET whole == Quo(value, mod)
        rem   == Sub(value, whole)
    IN  <<whole, rem>>

\* ------------------------------------------------------------- formulas
\* the caller's pure function: f(x) = a*x*x + b*x + c in T
Formulas ==
    { [a |-> 0, b |-> 0, c |-> c] : c \in (0 - MaxC)..MaxC }
    \cup { [a |-> 0, b |-> 1, c |-> 0], [a |-> 1, b |-> 0, c |-> 0] }

Apply(f, x) == WrapT(f.a * x * x + f.b * x + f.c)

\* ------------------------------------------------------------- ranges
\* variant: touching endpoints do not overlap
RangesOverlapStrict(startA, endA, startB, endB) == startA < endB /\ startB < endA

RangesOverlap(startA, endA, startB, endB) == startA <= endB /\ startB <= endA

CombineRangesIfOverlap(startA, endA, startB, endB) ==
    IF ~RangesOverlap(startA, endA, startB, endB)
    THEN <<FALSE, 0, 0>>
    ELSE <<TRUE, Min(startA, startB), Max(endA, endB)>>

\* ------------------------------------------------------------- QuickDerivative
\* integer division by zero panics: the call then returns nothing
\* variant: the usual central difference, dividing by xHi - xLo
QuickDerivativeByDifference(at, resolution, formula) ==
    LET xHi == Add(at, resolution)
        xLo == Sub(at, resolution)
        yHi == Apply(formula, xHi)
        yLo == Apply(formula, xLo)
    IN  IF Sub(xHi, xLo) = 0 THEN [panic |-> TRUE, slope |-> 0]
        ELSE [panic |-> FALSE, slope |-> Quo(Sub(yHi, yLo), Sub(xHi, xLo))]

QuickDerivative(at, resolution, formula) ==
    LET xHi == Add(at, resolution)
        xLo == Sub(at, resolution)
        yHi == Apply(formula, xHi)
        yLo == Apply(formula, xLo)
    IN  IF xLo = 0 THEN [panic |-> TRUE, slope |-> 0]
        ELSE IF Quo(xHi, xLo) = 0 THEN [panic |-> TRUE, slope |-> 0]
        ELSE [panic |-> FALSE, slope |-> Quo(Sub(yHi, yLo), Quo(xHi, xLo))]

\* ------------------------------------------------------------- QuickIntegral
\* the swap, and the locals as declared before the loop
QIEntryNoSwap(from, to) ==
    [from |-> from, to |-> to, sum |-> 0, xLo |-> from, done |-> FALSE,
     yHi |-> 0, yLo |-> 0, xHi |-> 0, aLo |-> 0, aHi |-> 0]

QIEntry(from, to) ==
    LET lo == IF from > to THEN to ELSE from
        hi == IF from > to THEN from ELSE to
    IN  [from |-> lo, to |-> hi, sum |-> 0, xLo |-> lo, done |-> FALSE,
         yHi |-> 0, yLo |-> 0, xHi |-> 0, aLo |-> 0, aHi |-> 0]

\* variant: each half area is halved before the two are added
QIBodyHalves(l, resolution, formula) ==
    LET step == Add(l.xLo, resolution)
        clamp == step >= l.to
        xHi == IF clamp THEN l.to ELSE step
        yHi == Apply(formula, xHi)
        yLo == Apply(formula, l.xLo)
        aLo == Mul(resolution, yLo)
        aHi == Mul(resolution, yHi)
    IN  [from |-> l.from, to |-> l.to,
         sum |-> Add(l.sum, Add(Quo(aLo, 2), Quo(aHi, 2))),
         xLo |-> xHi, done |-> (l.done \/ clamp),
         yHi |-> yHi, yLo |-> yLo, xHi |-> xHi, aLo |-> aLo, aHi |-> aHi]

\* variant: the area uses the true width xHi - xLo of the step
QIBodyTrueWidth(l, resolution, formula) ==
    LET step == Add(l.xLo, resolution)
        clamp == step >= l.to
        xHi == IF clamp THEN l.to ELSE step
        yHi == Apply(formula, xHi)
        yLo == Apply(formula, l.xLo)
        aLo == Mul(Sub(xHi, l.xLo), yLo)
        aHi == Mul(Sub(xHi, l.xLo), yHi)
    IN  [from |-> l.from, to |-> l.to,
         sum |-> Add(l.sum, Quo(Add(aLo, aHi), 2)),
         xLo |-> xHi, done |-> (l.done \/ clamp),
         yHi |-> yHi, yLo |-> yLo, xHi |-> xHi, aLo |-> aLo, aHi |-> aHi]

\* variant: the loop ends only when a step lands exactly on to
QIBodyExactHit(l, resolution, formula) ==
    LET step == Add(l.xLo, resolution)
        clamp == step = l.to
        xHi == IF clamp THEN l.to ELSE step
        yHi == Apply(formula, xHi)
        yLo == Apply(formula, l.xLo)
        aLo == Mul(resolution, yLo)
        aHi == Mul(resolution, yHi)
    IN  [from |-> l.from, to |-> l.to,
         sum |-> Add(l.sum, Quo(Add(aLo, aHi), 2)),
         xLo |-> xHi, done |-> (l.done \/ clamp),
         yHi |-> yHi, yLo |-> yLo, xHi |-> xHi, aLo |-> aLo, aHi |-> aHi]

\* one iteration of the loop
QIBody(l, resolution, formula) ==
    LET step == Add(l.xLo, resolution)
        clamp == step >= l.to
        xHi == IF clamp THEN l.to ELSE step
        yHi == Apply(formula, xHi)
        yLo == Apply(formula, l.xLo)
        aLo == Mul(resolution, yLo)
        aHi == Mul(resolution, yHi)
    IN  [from |-> l.from, to |-> l.to,
         sum |-> Add(l.sum, Quo(Add(aLo, aHi), 2)),
         xLo |-> xHi, done |-> (l.done \/ clamp),
         yHi |-> yHi, yLo |-> yLo, xHi |-> xHi, aLo |-> aLo, aHi |-> aHi]

\* the whole call as a function of its arguments; xLo takes at most TCard
\* values and determines its successor, so a loop that has not finished
\* after TCard iterations never does
NoReturn == [returns |-> FALSE, sum |-> 0]

RECURSIVE QIRun(_, _, _, _)
QIRun(l, resolution, formula, n) ==
    IF l.done THEN [returns |-> TRUE, sum |-> l.sum]
    ELSE IF n = 0 THEN NoReturn
    ELSE QIRun(QIBody(l, resolution, formula), resolution, formula, n - 1)

QuickIntegral(from, to, resolution, formula) ==
    QIRun(QIEntry(from, to), resolution, formula, TCard)

\* ------------------------------------------------------------- inputs
Small == (0 - MaxIn)..MaxIn

Edge == Small \cup {MIN_I8, MAX_I8}

NoLocals == [none |-> TRUE]

Init ==
    /\ pc = "start"
    /\ locals = NoLocals
    /\ ret = <<>>
    /\ \/ fn = "IMod" /\ args \in [val : Int8, div : Int8]
       \/ fn = "IWholeRem" /\ args \in [value : Int8, mod : Edge]
       \/ fn = "QuickDerivative"
          /\ args \in [at : Int8, resolution : Edge, formula : Formulas]
       \/ fn = "QuickIntegral"
          /\ args \in [from : Edge, to : Edge, resolution : Small,
                        formula : Formulas]
       \/ fn = "RangesOverlap"
          /\ args \in [startA : Small, endA : Small, startB : Small, endB : Small]
       \/ fn = "CombineRangesIfOverlap"
          /\ args \in [startA : Small, endA : Small, startB : Small, endB : Small]

CallIMod ==
    /\ pc = "start" /\ fn = "IMod"
    /\ IF args.div = 0
       THEN pc' = "panic" /\ ret' = ret
       ELSE pc' = "done" /\ ret' = IMod(args.val, args.div)
    /\ UNCHANGED <<fn, args, locals>>

CallIWholeRem ==
    /\ pc = "start" /\ fn = "IWholeRem"
    /\ IF args.mod = 0
       THEN pc' = "panic" /\ ret' = ret
       ELSE pc' = "done" /\ ret' = IWholeRem(args.value, args.mod)
    /\ UNCHANGED <<fn, args, locals>>

CallQuickDerivative ==
    /\ pc = "start" /\ fn = "QuickDerivative"
    /\ LET r == QuickDerivative(args.at, args.resolution, args.formula)
       IN  IF r.panic
           THEN pc' = "panic" /\ ret' = ret
           ELSE pc' = "done" /\ ret' = r.slope
    /\ UNCHANGED <<fn, args, locals>>

CallRangesOverlap ==
    /\ pc = "start" /\ fn = "RangesOverlap"
    /\ pc' = "done"
    /\ ret' = RangesOverlap(args.startA, args.endA, args.startB, args.endB)
    /\ UNCHANGED <<fn, args, locals>>

CallCombineRangesIfOverlap ==
    /\ pc = "start" /\ fn = "CombineRangesIfOverlap"
    /\ pc' = "done"
    /\ ret' = CombineRangesIfOverlap(args.startA, args.endA, args.startB, args.endB)
    /\ UNCHANGED <<fn, args, locals>>

QIEnter ==
    /\ pc = "start" /\ fn = "QuickIntegral"
    /\ pc' = "loop"
    /\ locals' = QIEntry(args.from, args.to)
    /\ UNCHANGED <<fn, args, ret>>

\* the loop condition !done holds: control enters the body
QITest ==
    /\ pc = "loop" /\ ~locals.done
    /\ pc' = "body"
    /\ UNCHANGED <<fn, args, locals, ret>>

QIIterate ==
    /\ pc = "body"
    /\ pc' = "loop"
    /\ locals' = QIBody(locals, args.resolution, args.formula)
    /\ UNCHANGED <<fn, args, ret>>

QIReturn ==
    /\ pc = "loop" /\ locals.done
    /\ pc' = "done"
    /\ ret' = locals.sum
    /\ UNCHANGED <<fn, args, locals>>

Next ==
    \/ CallIMod
    \/ CallIWholeRem
    \/ CallQuickDerivative
    \/ CallRangesOverlap
    \/ CallCombineRangesIfOverlap
    \/ QIEnter
    \/ QITest
    \/ QIIterate
    \/ QIReturn

Spec == Init /\ [][Next]_vars

\* the loop is sequential code: an enabled step is eventually taken
FairSpec == Spec /\ WF_vars(Next)

TypeOK == pc \in {"start", "loop", "body", "done", "panic"}

\* ------------------------------------------------------------------------
\* Properties
\* ------------------------------------------------------------------------
InT(x) == MIN_I8 <= x /\ x <= MAX_I8

IsConst(f) == f.a = 0 /\ f.b = 0

Identity == [a |-> 0, b |-> 1, c |-> 0]

\* the remainder of Go's % on signed integers: sign of the dividend
NativeRem(a, b) ==
    LET m == MathAbs(a) % MathAbs(b)
    IN  IF a < 0 THEN 0 - m ELSE m

IModReturned == pc = "done" /\ fn = "IMod"

\* both arguments can be negated without overflow
IModInRange == args.val # MIN_I8 /\ args.div # MIN_I8

\* C1 (as stated): for val and nonzero div within range, IMod(val, div) is
\* the native truncating remainder val % div, carrying the sign of val.
C1_IModIsNativeRemainder ==
    (IModReturned /\ IModInRange) => ret = NativeRem(args.val, args.div)

\* C1 (amended): IMod(val, div) is the native remainder when div > 0 and its
\* negation when div < 0, so IMod(-7,3) = -1, IMod(7,-3) = -1,
\* IMod(-7,-3) = 1 and IMod(7,3) = 1.
C1_IModNativeUpToDivisorSign ==
    (IModReturned /\ IModInRange) =>
        /\ args.div > 0 => ret = NativeRem(args.val, args.div)
        /\ args.div < 0 => ret = 0 - NativeRem(args.val, args.div)
        /\ (args.val = -7 /\ args.div = 3) => ret = -1
        /\ (args.val = 7 /\ args.div = -3) => ret = -1
        /\ (args.val = -7 /\ args.div = -3) => ret = 1
        /\ (args.val = 7 /\ args.div = 3) => ret = 1

C1_Witness ==
    IModReturned /\ args.val = 7 /\ args.div = -3 /\ ret = -1

\* C2: for val and nonzero div whose negations do not overflow, IMod(val, div)
\* has magnitude |val| mod |div|, below |div|, and is negative only when
\* exactly one of val, div is negative, and then whenever it is not zero.
C2_IModMagnitudeAndSign ==
    (IModReturned /\ IModInRange) =>
        LET oneNeg == (args.val < 0) # (args.div < 0)
            m == MathAbs(args.val) % MathAbs(args.div)
        IN  /\ MathAbs(ret) = m
            /\ MathAbs(ret) < MathAbs(args.div)
            /\ ret < 0 <=> (oneNeg /\ m # 0)

C2_Witness ==
    IModReturned /\ args.val = -7 /\ args.div = -3 /\ ret = 1

\* C10 (as stated): the magnitude path is right for every int8 value, the
\* minimum included: the result has magnitude |val| mod |div|.
C10_IModRightAtMinimum ==
    IModReturned => MathAbs(ret) = MathAbs(args.val) % MathAbs(args.div)

\* C3: IWholeRem returns whole = value / mod truncated toward zero and
\* rem = value - whole, so that whole + rem = value.
C3_IWholeRemSplit ==
    (pc = "done" /\ fn = "IWholeRem") =>
        /\ \E q \in MIN_I8..(MAX_I8 + 1) :
              /\ ret[1] = WrapT(q)
              /\ LET r == args.value - q * args.mod
                 IN  /\ MathAbs(r) < MathAbs(args.mod)
                     /\ r = 0 \/ ((r < 0) = (args.value < 0))
        /\ ret[2] = WrapT(args.value - ret[1])
        /\ WrapT(ret[1] + ret[2]) = args.value

\* the remainder is not below mod in magnitude: IWholeRem(7, 2) = (3, 4)
C3_Witness ==
    /\ pc = "done" /\ fn = "IWholeRem"
    /\ args.value = 7 /\ args.mod = 2
    /\ ret = <<3, 4>>
    /\ MathAbs(ret[2]) >= MathAbs(args.mod)

QIReturned == pc = "done" /\ fn = "QuickIntegral"

\* C4: a call of QuickIntegral that returns, returns what the call with the
\* bounds exchanged returns.
C4_QuickIntegralSymmetric ==
    QIReturned =>
        LET r == QuickIntegral(args.to, args.from, args.resolution, args.formula)
        IN  r.returns /\ r.sum = ret

C4_Witness ==
    /\ QIReturned
    /\ args.from = 3 /\ args.to = 0 /\ args.resolution = 1
    /\ args.formula = [a |-> 0, b |-> 0, c |-> 1]
    /\ ret = 3

\* a constant formula over an interval that resolution > 0 divides
QIExactCase ==
    /\ QIReturned
    /\ IsConst(args.formula)
    /\ args.resolution > 0
    /\ args.from <= args.to
    /\ (args.to - args.from) % args.resolution = 0

\* C5 (as stated): in the exact case, zero length included, the result is
\* c * (to - from).
C5_ExactIncludingZeroLength ==
    QIExactCase => ret = args.formula.c * (args.to - args.from)

\* C5 (amended): in the exact case with from < to the result is
\* c * (to - from) in T, given that 2 * resolution * c fits T; with
\* from = to, and to + resolution fitting T, the single iteration adds a
\* full step and the result is c * resolution.
C5_ExactForNonZeroLength ==
    (QIExactCase /\ InT(2 * args.resolution * args.formula.c)) =>
        /\ args.from < args.to =>
              ret = WrapT(args.formula.c * (args.to - args.from))
        /\ (args.from = args.to /\ InT(args.to + args.resolution)) =>
              ret = WrapT(args.formula.c * args.resolution)

C5_Witness ==
    /\ QIExactCase
    /\ args.from = 0 /\ args.to = 0 /\ args.resolution = 1
    /\ args.formula.c = 1
    /\ ret = 1

\* number of iterations over [from, to] with from < to and resolution > 0
Iterations == (args.to - args.from + args.resolution - 1) \div args.resolution

QIConstCase ==
    /\ QIReturned
    /\ IsConst(args.formula)
    /\ args.resolution > 0
    /\ args.from < args.to

C6_RangeAlgebra ==
    LET sA == args.startA
        eA == args.endA
        sB == args.startB
        eB == args.endB
        over == sA <= eB /\ sB <= eA
        wellFormed == sA <= eA /\ sB <= eB
    IN  /\ (pc = "done" /\ fn = "RangesOverlap") =>
              /\ ret = over
              /\ wellFormed =>
                    (ret <=> \E p \in Small : sA <= p /\ p <= eA /\ sB <= p /\ p <= eB)
        /\ (pc = "done" /\ fn = "CombineRangesIfOverlap") =>
              /\ ~over <=> ret = <<FALSE, 0, 0>>
              /\ over => ret = <<TRUE, IF sA <= sB THEN sA ELSE sB,
                                       IF eA >= eB THEN eA ELSE eB>>
              /\ (over /\ wellFormed) =>
                    \A p \in Small :
                        ((sA <= p /\ p <= eA) \/ (sB <= p /\ p <= eB))
                            => (ret[2] <= p /\ p <= ret[3])

\* touching endpoints overlap
C6_Witness ==
    /\ pc = "done" /\ fn = "CombineRangesIfOverlap"
    /\ args.startA = 0 /\ args.endA = 1 /\ args.startB = 1 /\ args.endB = 3
    /\ ret = <<TRUE, 0, 3>>

C8_QuickIntegralTerminates ==
    (fn = "QuickIntegral") ~> (pc = "done")

\* C8 (amended): a call with resolution > 0 in which no xLo + resolution
\* wraps around (to - 1 + resolution fits T, to being the larger bound)
\* returns.
C8_TerminatesWhenAdvancing ==
    (/\ fn = "QuickIntegral"
     /\ args.resolution > 0
     /\ InT(Max(args.from, args.to) - 1 + args.resolution)) ~> (pc = "done")

C8_Witness ==
    /\ QIReturned
    /\ args.from = 0 /\ args.to = MAX_I8 /\ args.resolution = 1
    /\ locals.xLo = MAX_I8
====
